---- MODULE Spec2Model ----
(***************************************************************************)
(* Model of the NASA APOD ETL pipeline of A2/dags/nasa_apod_etl_dag.py:    *)
(* the five task callables / shell commands, the task graph               *)
(* extract -> transform -> [load_to_postgres, load_to_csv] -> dvc -> git,  *)
(* and the scheduling options the DAG sets (retries, max_active_runs,      *)
(* default trigger rule).                                                  *)
(***************************************************************************)
EXTENDS Integers, Sequences, FiniteSets, TLC

\* ------------------------------------------------------------------ bounds
MaxRuns == 2
MaxDate == 2
\* outside failures (errors of a collaborator, timeouts) injected per behaviour
MaxFaults == 3
\* direct calls of load_to_csv in a behaviour of SpecCsv
MaxWrites == 3

\* ------------------------------------------------------- program constants
retries == 2
max_retries == 3
max_active_runs == 1

\* ------------------------------------------------------------------ values
\* None / JSON null, a missing dict key, pandas NaN (string-valued fields)
Null == "NULL"
Absent == "ABSENT"
NaN == "NaN"
\* dates are 1..MaxDate in calendar order (ISO strings compare the same way);
\* NullDate is a null 'date', AbsentDate a body without the key
NullDate == 0
AbsentDate == 0 - 1

Runs == 1..MaxRuns
Dates == 1..MaxDate

Tasks == {"extract_data", "transform_data", "load_to_postgres", "load_to_csv",
          "version_data_with_dvc", "commit_to_git"}

\* the graph with the two writers chained instead of fanned out
UpstreamChained(t) ==
    CASE t = "extract_data" -> {}
      [] t = "transform_data" -> {"extract_data"}
      [] t = "load_to_postgres" -> {"transform_data"}
      [] t = "load_to_csv" -> {"load_to_postgres"}
      [] t = "version_data_with_dvc" -> {"load_to_csv"}
      [] t = "commit_to_git" -> {"version_data_with_dvc"}

\* extract_task >> transform_task >> [load_postgres_task, load_csv_task] >> dvc_task >> git_task
Upstream(t) ==
    CASE t = "extract_data" -> {}
      [] t = "transform_data" -> {"extract_data"}
      [] t = "load_to_postgres" -> {"transform_data"}
      [] t = "load_to_csv" -> {"transform_data"}
      [] t = "version_data_with_dvc" -> {"load_to_postgres", "load_to_csv"}
      [] t = "commit_to_git" -> {"version_data_with_dvc"}

Leaves == {t \in Tasks : \A u \in Tasks : t \notin Upstream(u)}

\* ------------------------------------------------------------ record model
\* What the API body can hold for the three fields the checks look at.
RawDateValues == Dates \cup {NullDate}
RawTitleValues == {"Nebula", Null}
RawMediaValues == {"audio", Absent}

EmptyRaw == [date |-> AbsentDate, title |-> Absent, media_type |-> Absent]

RawRecords ==
    [date : RawDateValues, title : RawTitleValues, media_type : RawMediaValues]
        \cup {EmptyRaw}

\* dict.get(key, default): the default only replaces a missing key
Get(v, default) == IF v = Absent THEN default ELSE v

\* transformed_data = {...}
TransformRecord(raw, now) ==
    [date |-> IF raw.date = AbsentDate THEN NullDate ELSE raw.date,
     title |-> Get(raw.title, "N/A"),
     media_type |-> Get(raw.media_type, "image"),
     extracted_at |-> now]

\* pandas isna(): None and NaN are missing, the empty string is not
IsNa(v) == v \in {Null, NaN}

\* the three assert lines of transform_apod_data
QualityChecksPass(rec) ==
    /\ rec.date # NullDate
    /\ ~IsNa(rec.title)
    /\ rec.media_type \in {"image", "video"}

\* `if not raw_data`
IsFalsy(raw) == raw = EmptyRaw

\* --------------------------------------------------------- tabular snapshot
\* The artifact /opt/airflow/data/apod_data.csv: missing, unparseable bytes,
\* or a header plus text rows.
NoFile == [kind |-> "nofile", rows |-> <<>>]
CorruptFile == [kind |-> "corrupt", rows |-> <<>>]
Table(rows) == [kind |-> "table", rows |-> rows]

\* DataFrame.to_csv: a missing value is written as the empty field
ToCsvCell(v) == IF IsNa(v) THEN "" ELSE v
ToCsvRow(rec) ==
    [date |-> rec.date, title |-> ToCsvCell(rec.title),
     media_type |-> ToCsvCell(rec.media_type), extracted_at |-> rec.extracted_at]

\* pd.read_csv default na_values: these fields come back as NaN
NaStrings == {"", "N/A", "NA", "NULL", "NaN", "nan", "null", "n/a", "#N/A"}
ReadCsvCell(s) == IF s \in NaStrings THEN NaN ELSE s
ReadCsvRow(row) ==
    [date |-> row.date, title |-> ReadCsvCell(row.title),
     media_type |-> ReadCsvCell(row.media_type), extracted_at |-> row.extracted_at]

\* pd.read_csv / df.to_csv over all the rows
ReadCsv(rows) == [i \in 1..Len(rows) |-> ReadCsvRow(rows[i])]
ToCsv(frame) == [i \in 1..Len(frame) |-> ToCsvRow(frame[i])]

\* df.sort_values('date', ascending=False)
RECURSIVE InsertDesc(_, _)
InsertDesc(sorted, x) ==
    IF sorted = <<>> THEN <<x>>
    ELSE IF x.date > Head(sorted).date THEN <<x>> \o sorted
    ELSE <<Head(sorted)>> \o InsertDesc(Tail(sorted), x)

RECURSIVE SortDesc(_)
SortDesc(s) == IF s = <<>> THEN <<>> ELSE InsertDesc(SortDesc(Tail(s)), Head(s))

\* the merge without the removal of the rows of the same date
MergedFrameAppendOnly(file, data) ==
    IF file.kind = "nofile" THEN <<data>>
    ELSE SortDesc(ReadCsv(file.rows) \o <<data>>)

\* the DataFrame load_to_csv builds before df.to_csv (lines 261-278)
MergedFrame(file, data) ==
    IF file.kind = "nofile" THEN <<data>>
    ELSE LET existing_df == ReadCsv(file.rows)
             kept == SelectSeq(existing_df, LAMBDA x : x.date # data.date)
         IN  SortDesc(kept \o <<data>>)

\* what a completed df.to_csv leaves on disk
WrittenFile(file, data) == Table(ToCsv(MergedFrame(file, data)))

\* what an interrupted df.to_csv can leave: the file was truncated on open,
\* then a cut header (unparseable) or the header and a strict prefix of rows
TornFiles(full) ==
    {CorruptFile} \cup {Table(SubSeq(full.rows, 1, n)) : n \in 0..(Len(full.rows) - 1)}

\* Every way one call of load_to_csv can end: the file it leaves, whether it
\* raised, and whether an outside failure was needed for that.
CsvOutcome(file, raised, fault) == [file |-> file, raised |-> raised, fault |-> fault]

\* a writer that starts over when the prior snapshot cannot be parsed
LoadToCsvOutcomesStartOver(file, data) ==
    LET prior == IF file.kind = "corrupt" THEN NoFile ELSE file
    IN  {CsvOutcome(WrittenFile(prior, data), FALSE, FALSE)}
        \cup {CsvOutcome(file, TRUE, TRUE)}
        \cup {CsvOutcome(torn, TRUE, TRUE) : torn \in TornFiles(WrittenFile(prior, data))}

LoadToCsvOutcomes(file, data) ==
    IF file.kind = "corrupt"
    THEN {CsvOutcome(file, TRUE, FALSE)}                   \* pd.read_csv raises
    ELSE {CsvOutcome(WrittenFile(file, data), FALSE, FALSE)}
         \cup {CsvOutcome(file, TRUE, TRUE)}               \* read or open fails
         \cup {CsvOutcome(torn, TRUE, TRUE) :              \* to_csv fails part-way
                   torn \in TornFiles(WrittenFile(file, data))}

\* ---------------------------------------------------------------- keyed store
\* a plain INSERT, on a table without the unique key
UpsertInsertOnly(table, data) == table \cup {data}

\* INSERT ... ON CONFLICT (date) DO UPDATE SET ... over table apod_data
Upsert(table, data) == {x \in table : x.date # data.date} \cup {data}

\* ------------------------------------------------------------ shell command lists
\* A bash_command is one AND-OR list: commands joined by && and ||, evaluated
\* left to right with equal precedence; the exit code is that of the last
\* command executed.
Cmd(op, cmd) == [op |-> op, cmd |-> cmd]

\* dvc_task.bash_command
dvc_commands ==
    << Cmd("first", "cd"),
       Cmd("&&", "echo"),
       Cmd("&&", "echo"),
       Cmd("&&", "dvc status"),
       Cmd("||", "true"),
       Cmd("&&", "echo"),
       Cmd("&&", "dvc add"),
       Cmd("&&", "echo"),
       Cmd("&&", "dvc status"),
       Cmd("&&", "echo"),
       Cmd("&&", "ls"),
       Cmd("&&", "echo"),
       Cmd("&&", "cat") >>

\* git_task.bash_command
git_commands ==
    << Cmd("first", "cd"),
       Cmd("&&", "echo"),
       Cmd("&&", "git config"),
       Cmd("&&", "git config"),
       Cmd("&&", "git config"),
       Cmd("&&", "echo"),
       Cmd("&&", "git init"),
       Cmd("||", "echo"),
       Cmd("&&", "echo"),
       Cmd("&&", "git status"),
       Cmd("||", "true"),
       Cmd("&&", "echo"),
       Cmd("&&", "git add"),
       Cmd("||", "true"),
       Cmd("&&", "echo"),
       Cmd("&&", "git commit"),
       Cmd("||", "echo"),
       Cmd("&&", "echo"),
       Cmd("&&", "git log"),
       Cmd("||", "true"),
       Cmd("&&", "echo") >>

\* The versioning state the commands read and write: the snapshot artifact,
\* the .dvc metadata file (<<>> or <<captured content>>), the git index and
\* the commit log (each entry the metadata committed), and whether the cd
\* into /opt/airflow took effect.
ShellEnv(file, meta, index, log) ==
    [csv |-> file, dvc |-> meta, index |-> index, log |-> log, cwd |-> FALSE]

GitHead(log) == IF log = <<>> THEN <<>> ELSE log[Len(log)]

Ok(env) == [status |-> 0, env |-> env]
Failed(env) == [status |-> 1, env |-> env]

\* a dvc add that refuses a path it already tracks
DvcAddUntrackedOnly(env) ==
    IF env.csv.kind = "nofile" \/ env.dvc # <<>> THEN Failed(env)
    ELSE Ok([env EXCEPT !.dvc = <<env.csv>>])

\* dvc add data/apod_data.csv: the metadata file describes the content of
\* the artifact; an unchanged artifact gives the same metadata
DvcAdd(env) ==
    IF env.csv.kind = "nofile" THEN Failed(env)
    ELSE Ok([env EXCEPT !.dvc = <<env.csv>>])

\* git add data/apod_data.csv.dvc ...: a missing path stages nothing
GitAdd(env) ==
    IF env.dvc = <<>> THEN Failed(env)
    ELSE Ok([env EXCEPT !.index = env.dvc])

\* git commit --allow-empty: a commit is recorded even with nothing staged
GitCommitAllowEmpty(env) == Ok([env EXCEPT !.log = Append(env.log, env.index)])

\* git commit -m "...": exits 1 with nothing to commit
GitCommit(env) ==
    IF env.index = GitHead(env.log) THEN Failed(env)
    ELSE Ok([env EXCEPT !.log = Append(env.log, env.index)])

\* One command: its exit status and its effect.  A command that needs the
\* repository fails outside /opt/airflow.
Exec(cmd, env) ==
    CASE cmd \in {"echo", "true", "git config"} -> Ok(env)
      [] cmd = "cd" -> Ok([env EXCEPT !.cwd = TRUE])
      [] ~env.cwd -> Failed(env)
      [] cmd = "dvc add" -> DvcAdd(env)
      [] cmd \in {"ls", "cat"} ->
            IF env.dvc = <<>> THEN Failed(env) ELSE Ok(env)
      [] cmd = "git add" -> GitAdd(env)
      [] cmd = "git commit" -> GitCommit(env)
      [] OTHER -> Ok(env)

\* Run the list from position i with the status so far; failAt is the
\* position of a command that fails for an outside reason (0: none), and
\* the shell is killed after `cut` commands (execution_timeout).
RECURSIVE RunList(_, _, _, _, _)
RunList(list, i, acc, failAt, cut) ==
    IF i > Len(list) \/ i > cut THEN acc
    ELSE LET item == list[i]
             runs == \/ item.op = "first"
                     \/ item.op = "&&" /\ acc.status = 0
                     \/ item.op = "||" /\ acc.status # 0
             res == IF i = failAt THEN Failed(acc.env) ELSE Exec(item.cmd, acc.env)
             \* the status and the files after this command, evaluated once
             after == {IF runs THEN res ELSE acc}
         IN  CHOOSE out \in {RunList(list, i + 1, next, failAt, cut) : next \in after} : TRUE

Bash(list, env, failAt, cut) == RunList(list, 1, Ok(env), failAt, cut)

\* positions where an outside failure is injected
FailPoints(list) ==
    {0} \cup {i \in 1..Len(list) : list[i].cmd \notin {"echo", "true"}}

\* how many commands ran before a kill: none, up to a command with an
\* effect on the versioning state, or all of them (no kill)
KillPoints(list) ==
    {0, Len(list)} \cup {i \in 1..Len(list) : list[i].cmd \in {"dvc add", "git add", "git commit"}}

\* ===================================================================== state
VARIABLES
    runState,        \* run -> "none" | "queued" | "running" | "success" | "failed"
    ti,              \* run -> task -> task instance state
    tries,           \* run -> task -> try_number (executions started)
    err,             \* run -> task -> last exception the task logged ("none" after a success)
    attempt,         \* run -> loop variable of extract_apod_data
    slept,           \* run -> the time.sleep calls of the executing extract_apod_data
    params,          \* run -> params['date'] of the executing extract_apod_data (0: none)
    logical_date,    \* run -> logical date of the context extract_apod_data is called with (0: unset)
    requests,        \* run -> requests.get calls issued
    xcomExtract,     \* run -> <<>> or <<return value of extract_data>>
    xcomTransform,   \* run -> <<>> or <<return value of transform_data>>
    db,              \* rows of table apod_data
    csv,             \* the artifact data/apod_data.csv
    dvcMeta,         \* data/apod_data.csv.dvc: <<>> or <<captured content>>
    gitIndex,        \* staged metadata
    gitLog,          \* commits
    faults,          \* outside failures injected so far
    jsonErrIsRequestException  \* installed requests: JSONDecodeError subclasses RequestException

vars == <<runState, ti, tries, err, attempt, slept, params, requests, xcomExtract,
          xcomTransform, db, csv, dvcMeta, gitIndex, gitLog, faults,
          jsonErrIsRequestException, logical_date>>

xcomVars == <<xcomExtract, xcomTransform>>
sinkVars == <<db, csv>>
versionVars == <<dvcMeta, gitIndex, gitLog>>

TaskStates == {"none", "running", "up_for_retry", "success", "failed", "upstream_failed"}
Finished == {"success", "failed", "upstream_failed"}

Init ==
    /\ runState = [r \in Runs |-> "none"]
    /\ ti = [r \in Runs |-> [t \in Tasks |-> "none"]]
    /\ tries = [r \in Runs |-> [t \in Tasks |-> 0]]
    /\ err = [r \in Runs |-> [t \in Tasks |-> "none"]]
    /\ attempt = [r \in Runs |-> 0]
    /\ slept = [r \in Runs |-> <<>>]
    /\ params = [r \in Runs |-> 0]
    /\ logical_date = [r \in Runs |-> 0]
    /\ requests = [r \in Runs |-> 0]
    /\ xcomExtract = [r \in Runs |-> <<>>]
    /\ xcomTransform = [r \in Runs |-> <<>>]
    /\ db = {}
    /\ csv = NoFile
    /\ dvcMeta = <<>>
    /\ gitIndex = <<>>
    /\ gitLog = <<>>
    /\ faults = 0
    /\ jsonErrIsRequestException \in BOOLEAN

\* ------------------------------------------------------------- the scheduler
ActiveRuns == {r \in Runs : runState[r] = "running"}

\* A scheduled or manual trigger creates the next DagRun, queued.
Trigger(r, kind) ==
    /\ runState[r] = "none"
    /\ \A q \in Runs : q < r => runState[q] # "none"
    /\ runState' = [runState EXCEPT ![r] = "queued"]
    /\ UNCHANGED <<ti, tries, err, attempt, slept, params, requests, xcomVars, sinkVars,
                   versionVars, faults, jsonErrIsRequestException, logical_date>>

\* The model keeps the task-instance rows of the runs that are queued,
\* running, or finished since the last run started; when a run starts, the
\* rows of the runs that finished before it are dropped (nothing reads them).
Over(r) == runState[r] \in {"success", "failed"}
Archive ==
    /\ ti' = [r \in Runs |-> IF Over(r) THEN [t \in Tasks |-> "none"] ELSE ti[r]]
    /\ tries' = [r \in Runs |-> IF Over(r) THEN [t \in Tasks |-> 0] ELSE tries[r]]
    /\ err' = [r \in Runs |-> IF Over(r) THEN [t \in Tasks |-> "none"] ELSE err[r]]
    /\ attempt' = [r \in Runs |-> IF Over(r) THEN 0 ELSE attempt[r]]
    /\ slept' = [r \in Runs |-> IF Over(r) THEN <<>> ELSE slept[r]]
    /\ params' = [r \in Runs |-> IF Over(r) THEN 0 ELSE params[r]]
    /\ requests' = [r \in Runs |-> IF Over(r) THEN 0 ELSE requests[r]]
    /\ xcomExtract' = [r \in Runs |-> IF Over(r) THEN <<>> ELSE xcomExtract[r]]
    /\ xcomTransform' = [r \in Runs |-> IF Over(r) THEN <<>> ELSE xcomTransform[r]]

\* no cap on the active runs
MayStartRunUncapped(r) == TRUE

\* max_active_runs=1: a queued run starts only while fewer runs are active
MayStartRun(r) == Cardinality(ActiveRuns) < max_active_runs

StartRun(r) ==
    /\ runState[r] = "queued"
    /\ \A q \in Runs : q < r => runState[q] # "queued"
    /\ MayStartRun(r)
    /\ runState' = [runState EXCEPT ![r] = "running"]
    /\ Archive
    /\ UNCHANGED <<sinkVars, versionVars, faults, jsonErrIsRequestException, logical_date>>

\* trigger rule all_done: upstream tasks only have to be finished
UpstreamAllDone(r, t) == \A u \in Upstream(t) : ti[r][u] \in Finished

\* default trigger rule (all_success) over the edges of line 460
UpstreamDone(r, t) == \A u \in Upstream(t) : ti[r][u] = "success"
UpstreamBroken(r, t) == \E u \in Upstream(t) : ti[r][u] \in {"failed", "upstream_failed"}

StartTask(r, t) ==
    /\ runState[r] = "running"
    /\ ti[r][t] \in {"none", "up_for_retry"}
    /\ UpstreamDone(r, t)
    /\ ti' = [ti EXCEPT ![r][t] = "running"]
    /\ tries' = [tries EXCEPT ![r][t] = @ + 1]
    /\ UNCHANGED <<runState, err, attempt, slept, params, requests, xcomVars, sinkVars, versionVars,
                   faults, jsonErrIsRequestException, logical_date>>

MarkUpstreamFailed(r, t) ==
    /\ runState[r] = "running"
    /\ ti[r][t] = "none"
    /\ UpstreamBroken(r, t)
    /\ ti' = [ti EXCEPT ![r][t] = "upstream_failed"]
    /\ UNCHANGED <<runState, tries, err, attempt, slept, params, requests, xcomVars, sinkVars,
                   versionVars, faults, jsonErrIsRequestException, logical_date>>

\* 'retries': 2 -- an execution that raises is rescheduled while
\* try_number <= retries, and is failed after that
StateAfterFailure(try_number) ==
    IF try_number <= retries THEN "up_for_retry" ELSE "failed"

Raise(r, t, e) ==
    /\ ti' = [ti EXCEPT ![r][t] = StateAfterFailure(tries[r][t])]
    /\ err' = [err EXCEPT ![r][t] = e]

Succeed(r, t) ==
    /\ ti' = [ti EXCEPT ![r][t] = "success"]
    /\ err' = [err EXCEPT ![r][t] = "none"]

\* an outside failure is injected while the budget lasts
Fault == faults < MaxFaults /\ faults' = faults + 1
NoFault == UNCHANGED faults

\* 'execution_timeout': the callable is interrupted by AirflowTaskTimeout
PythonTasks == {"extract_data", "transform_data", "load_to_postgres", "load_to_csv"}

Timeout(r, t) ==
    /\ t \in PythonTasks
    /\ ti[r][t] = "running"
    /\ Fault
    /\ Raise(r, t, "AirflowTaskTimeout")
    /\ attempt' = [attempt EXCEPT ![r] = 0]
    /\ slept' = [slept EXCEPT ![r] = <<>>]
    /\ params' = [params EXCEPT ![r] = 0]
    /\ UNCHANGED <<runState, tries, requests, xcomVars, sinkVars,
                   versionVars, jsonErrIsRequestException, logical_date>>

\* The run is over when no task is unfinished; it is failed when a leaf
\* task is failed or upstream_failed.
RunOutcomeFailedLeafOnly(r) ==
    IF \A t \in Leaves : ti[r][t] # "failed" THEN "success" ELSE "failed"

RunOutcome(r) ==
    IF \A t \in Leaves : ti[r][t] = "success" THEN "success" ELSE "failed"

FinishRun(r) ==
    /\ runState[r] = "running"
    /\ \A t \in Tasks : ti[r][t] \in Finished
    /\ runState' = [runState EXCEPT ![r] = RunOutcome(r)]
    /\ UNCHANGED <<ti, tries, err, attempt, slept, params, requests, xcomVars,
                   sinkVars, versionVars, faults, jsonErrIsRequestException, logical_date>>

\* ------------------------------------------------------------ extract_data
\* a backoff that waits the same time after every failure
wait_time_fixed(a) == 2 ^ 0

\* wait_time = 2 ** attempt
wait_time(a) == 2 ^ a

\* the locals of extract_apod_data are gone when the execution ends
LocalsDropped(r) ==
    /\ attempt' = [attempt EXCEPT ![r] = 0]
    /\ slept' = [slept EXCEPT ![r] = <<>>]

\* `except requests.RequestException` inside `for attempt in range(max_retries)`
Caught(r, e) ==
    IF attempt[r] = max_retries - 1
    THEN /\ Raise(r, "extract_data", "Exception")
         /\ LocalsDropped(r)
    ELSE /\ slept' = [slept EXCEPT ![r] = Append(@, wait_time(attempt[r]))]
         /\ attempt' = [attempt EXCEPT ![r] = @ + 1]    \* next pass
         /\ err' = [err EXCEPT ![r]["extract_data"] = e]
         /\ UNCHANGED ti

\* the bodies the source can answer a request for `date` with: the record of
\* that date (any of its fields possibly null or missing), or an empty body
Answers(date) == {raw \in RawRecords : raw.date \in {date, NullDate, AbsentDate}}

\* One pass of the loop body: one requests.get and what comes back.  The
\* first pass of an execution follows the function's entry, where params is
\* built from datetime.now(); date is the day the clock shows then.
ExtractRequest(r) ==
    /\ ti[r]["extract_data"] = "running"
    /\ requests' = [requests EXCEPT ![r] = @ + 1]
    /\ \E date \in (IF attempt[r] = 0 THEN Dates ELSE {params[r]}) :
          /\ \/ \E raw \in Answers(date) :       \* 2xx, body parses: return data
                   /\ xcomExtract' = [xcomExtract EXCEPT ![r] = <<raw>>]
                   /\ Succeed(r, "extract_data")
                   /\ LocalsDropped(r)
                   /\ NoFault
             \/ /\ Fault                         \* timeout, connection or HTTP error
                /\ Caught(r, "RequestException")
                /\ UNCHANGED xcomExtract
             \/ /\ Fault                         \* 2xx, response.json() raises
                /\ IF jsonErrIsRequestException
                   THEN Caught(r, "JSONDecodeError")
                   ELSE /\ Raise(r, "extract_data", "JSONDecodeError")
                        /\ LocalsDropped(r)
                /\ UNCHANGED xcomExtract
          /\ params' = [params EXCEPT ![r] =
                 IF ti'[r]["extract_data"] = "running" THEN date ELSE 0]
    /\ UNCHANGED <<runState, tries, xcomTransform, sinkVars, versionVars,
                   jsonErrIsRequestException, logical_date>>

\* ---------------------------------------------------------- transform_data
\* datetime.now() of the execution of run r that returns the record: runs
\* execute one after another, so a later run reads a later clock
Now(r) == r

Transform(r) ==
    /\ ti[r]["transform_data"] = "running"
    /\ LET raw_data == xcomExtract[r][1]
           transformed_data == TransformRecord(raw_data, Now(r))
       IN  IF IsFalsy(raw_data)
           THEN /\ Raise(r, "transform_data", "ValueError")
                /\ UNCHANGED xcomTransform
           ELSE IF QualityChecksPass(transformed_data)
           THEN /\ xcomTransform' = [xcomTransform EXCEPT ![r] = <<transformed_data>>]
                /\ Succeed(r, "transform_data")
           ELSE /\ Raise(r, "transform_data", "AssertionError")
                /\ UNCHANGED xcomTransform
    /\ UNCHANGED <<runState, tries, attempt, slept, params, requests, xcomExtract, sinkVars,
                   versionVars, faults, jsonErrIsRequestException, logical_date>>

\* -------------------------------------------------------- load_to_postgres
LoadPostgres(r) ==
    /\ ti[r]["load_to_postgres"] = "running"
    /\ LET data == xcomTransform[r][1]
       IN  \/ /\ db' = Upsert(db, data)        \* commit, verification read
              /\ Succeed(r, "load_to_postgres")
              /\ NoFault
           \/ /\ Fault                         \* connect/execute/commit raises: rollback
              /\ UNCHANGED db
              /\ Raise(r, "load_to_postgres", "Exception")
           \/ /\ Fault                         \* the verification read raises after commit
              /\ db' = Upsert(db, data)
              /\ Raise(r, "load_to_postgres", "Exception")
    /\ UNCHANGED <<runState, tries, attempt, slept, params, requests, xcomVars, csv, versionVars,
                   jsonErrIsRequestException, logical_date>>

\* ------------------------------------------------------------- load_to_csv
LoadCsv(r) ==
    /\ ti[r]["load_to_csv"] = "running"
    /\ \E o \in LoadToCsvOutcomes(csv, xcomTransform[r][1]) :
          /\ csv' = o.file
          /\ IF o.fault THEN Fault ELSE NoFault
          /\ IF o.raised THEN Raise(r, "load_to_csv", "Exception")
             ELSE Succeed(r, "load_to_csv")
    /\ UNCHANGED <<runState, tries, attempt, slept, params, requests, xcomVars, db, versionVars,
                   jsonErrIsRequestException, logical_date>>

\* ------------------------------------------------- version_data_with_dvc
\* BashOperator: exit code 0 is success, anything else raises
BashOutcome(r, t, list, res, cut) ==
    IF cut < Len(list) THEN Raise(r, t, "AirflowTaskTimeout")
    ELSE IF res.status = 0 THEN Succeed(r, t)
    ELSE Raise(r, t, "AirflowException")

VersionDvc(r) ==
    /\ ti[r]["version_data_with_dvc"] = "running"
    /\ \E failAt \in FailPoints(dvc_commands), cut \in KillPoints(dvc_commands) :
          LET res == Bash(dvc_commands, ShellEnv(csv, dvcMeta, gitIndex, gitLog), failAt, cut)
          IN  /\ IF failAt = 0 /\ cut = Len(dvc_commands) THEN NoFault ELSE Fault
              /\ dvcMeta' = res.env.dvc
              /\ BashOutcome(r, "version_data_with_dvc", dvc_commands, res, cut)
    /\ UNCHANGED <<runState, tries, attempt, slept, params, requests, xcomVars, sinkVars,
                   gitIndex, gitLog, jsonErrIsRequestException, logical_date>>

\* --------------------------------------------------------- commit_to_git
CommitGit(r) ==
    /\ ti[r]["commit_to_git"] = "running"
    /\ \E failAt \in FailPoints(git_commands), cut \in KillPoints(git_commands) :
          LET res == Bash(git_commands, ShellEnv(csv, dvcMeta, gitIndex, gitLog), failAt, cut)
          IN  /\ IF failAt = 0 /\ cut = Len(git_commands) THEN NoFault ELSE Fault
              /\ gitIndex' = res.env.index
              /\ gitLog' = res.env.log
              /\ BashOutcome(r, "commit_to_git", git_commands, res, cut)
    /\ UNCHANGED <<runState, tries, attempt, slept, params, requests, xcomVars, sinkVars,
                   dvcMeta, jsonErrIsRequestException, logical_date>>

\* ==================================================================== system
Next ==
    \/ \E r \in Runs, kind \in {"scheduled", "manual"} : Trigger(r, kind)
    \/ \E r \in Runs : StartRun(r)
    \/ \E r \in Runs, t \in Tasks : StartTask(r, t)
    \/ \E r \in Runs, t \in Tasks : MarkUpstreamFailed(r, t)
    \/ \E r \in Runs, t \in Tasks : Timeout(r, t)
    \/ \E r \in Runs : ExtractRequest(r)
    \/ \E r \in Runs : Transform(r)
    \/ \E r \in Runs : LoadPostgres(r)
    \/ \E r \in Runs : LoadCsv(r)
    \/ \E r \in Runs : VersionDvc(r)
    \/ \E r \in Runs : CommitGit(r)
    \/ \E r \in Runs : FinishRun(r)

Spec == Init /\ [][Next]_vars

\* The scheduler and the workers keep running: a queued run that may start
\* is started, a task that may run is run, an execution ends (it returns,
\* raises, or is interrupted by execution_timeout), a finished run is closed.
\* Nothing obliges anyone to trigger a run.
Dispatch ==
    \/ \E r \in Runs : StartRun(r)
    \/ \E r \in Runs, t \in Tasks : StartTask(r, t)
    \/ \E r \in Runs, t \in Tasks : MarkUpstreamFailed(r, t)
    \/ \E r \in Runs, t \in Tasks : Timeout(r, t)
    \/ \E r \in Runs : ExtractRequest(r)
    \/ \E r \in Runs : Transform(r)
    \/ \E r \in Runs : LoadPostgres(r)
    \/ \E r \in Runs : LoadCsv(r)
    \/ \E r \in Runs : VersionDvc(r)
    \/ \E r \in Runs : CommitGit(r)
    \/ \E r \in Runs : FinishRun(r)

SpecLive == Spec /\ WF_vars(Dispatch)

\* ------------------------------------------- load_to_csv called on its own
\* The records Transform can return (the quality checks hold of each).
CanonicalRecords ==
    [date : Dates, title : {"Nebula", "N/A", ""}, media_type : {"image", "video"},
     extracted_at : {1}]

\* load_to_csv(**context) called with a context whose xcom_pull returns
\* data; the row of run 1 keeps the call count, the argument and the result.
CallLoadToCsv(data) ==
    /\ tries[1]["load_to_csv"] < MaxWrites
    /\ tries' = [tries EXCEPT ![1]["load_to_csv"] = @ + 1]
    /\ xcomTransform' = [xcomTransform EXCEPT ![1] = <<data>>]
    /\ \E o \in LoadToCsvOutcomes(csv, data) :
          /\ csv' = o.file
          /\ IF o.fault THEN Fault ELSE NoFault
          /\ ti' = [ti EXCEPT ![1]["load_to_csv"] = IF o.raised THEN "failed" ELSE "success"]
          /\ err' = [err EXCEPT ![1]["load_to_csv"] = IF o.raised THEN "Exception" ELSE "none"]
    /\ UNCHANGED <<runState, attempt, slept, params, requests, xcomExtract, db, versionVars,
                   jsonErrIsRequestException, logical_date>>

NextCsv == \E data \in CanonicalRecords : CallLoadToCsv(data)

SpecCsv == Init /\ [][NextCsv]_vars

\* -------------------------------------- load_to_postgres called on its own
\* load_to_postgres(**context) called with a context whose xcom_pull returns
\* data; the row of run 1 keeps the call count, the argument and the result.
CallLoadToPostgres(data) ==
    /\ tries[1]["load_to_postgres"] < MaxWrites
    /\ tries' = [tries EXCEPT ![1]["load_to_postgres"] = @ + 1]
    /\ xcomTransform' = [xcomTransform EXCEPT ![1] = <<data>>]
    /\ \/ /\ db' = Upsert(db, data)          \* commit, verification read
          /\ NoFault
          /\ ti' = [ti EXCEPT ![1]["load_to_postgres"] = "success"]
          /\ err' = [err EXCEPT ![1]["load_to_postgres"] = "none"]
       \/ /\ Fault                           \* connect/execute/commit raises: rollback
          /\ UNCHANGED db
          /\ ti' = [ti EXCEPT ![1]["load_to_postgres"] = "failed"]
          /\ err' = [err EXCEPT ![1]["load_to_postgres"] = "Exception"]
       \/ /\ Fault                           \* the verification read raises after commit
          /\ db' = Upsert(db, data)
          /\ ti' = [ti EXCEPT ![1]["load_to_postgres"] = "failed"]
          /\ err' = [err EXCEPT ![1]["load_to_postgres"] = "Exception"]
    /\ UNCHANGED <<runState, attempt, slept, params, requests, xcomExtract, csv, versionVars,
                   jsonErrIsRequestException, logical_date>>

NextPostgres == \E data \in CanonicalRecords : CallLoadToPostgres(data)

SpecPostgres == Init /\ [][NextPostgres]_vars

\* ----------------------------------- transform_apod_data called on its own
\* What a 2xx JSON body can hold for the three checked fields: a value, the
\* empty string, null, or no such key.
ResponseDateValues == Dates \cup {NullDate, AbsentDate}
ResponseTitleValues == {"Nebula", "", Null, Absent}
ResponseMediaValues == {"image", "video", "audio", Null, Absent}

ResponseRecords ==
    [date : ResponseDateValues, title : ResponseTitleValues,
     media_type : ResponseMediaValues]

\* transform_apod_data(**context) called with a context whose xcom_pull
\* returns raw; the row of run 1 keeps the call count, the argument and the
\* returned record (none when the call raised).
CallTransform(raw) ==
    /\ tries[1]["transform_data"] < MaxWrites
    /\ tries' = [tries EXCEPT ![1]["transform_data"] = @ + 1]
    /\ xcomExtract' = [xcomExtract EXCEPT ![1] = <<raw>>]
    /\ LET transformed_data == TransformRecord(raw, Now(1))
           raised == IF IsFalsy(raw) THEN "ValueError"
                     ELSE IF QualityChecksPass(transformed_data) THEN "none"
                     ELSE "AssertionError"
       IN  /\ xcomTransform' = [xcomTransform EXCEPT ![1] =
                  IF raised = "none" THEN <<transformed_data>> ELSE <<>>]
           /\ ti' = [ti EXCEPT ![1]["transform_data"] =
                  IF raised = "none" THEN "success" ELSE "failed"]
           /\ err' = [err EXCEPT ![1]["transform_data"] = raised]
    /\ UNCHANGED <<runState, attempt, slept, params, requests, sinkVars, versionVars, faults,
                   jsonErrIsRequestException, logical_date>>

NextTransform == \E raw \in ResponseRecords : CallTransform(raw)

SpecTransform == Init /\ [][NextTransform]_vars

\* -------------------------------------- extract_apod_data called on its own
\* extract_apod_data(**context) is entered with a context of logical date D
\* (a scheduled run, a late retry, or a manual run for an ad hoc date); the
\* passes of its loop are ExtractRequest, its interruption is Timeout.  The
\* row of run 1 keeps the call count and the result.
CallExtract(D) ==
    /\ ti[1]["extract_data"] # "running"
    /\ tries[1]["extract_data"] < MaxWrites
    /\ logical_date' = [logical_date EXCEPT ![1] = D]
    /\ ti' = [ti EXCEPT ![1]["extract_data"] = "running"]
    /\ tries' = [tries EXCEPT ![1]["extract_data"] = @ + 1]
    /\ UNCHANGED <<runState, err, attempt, slept, params, requests, xcomVars, sinkVars,
                   versionVars, faults, jsonErrIsRequestException>>

NextExtract ==
    \/ \E D \in Dates : CallExtract(D)
    \/ ExtractRequest(1)
    \/ Timeout(1, "extract_data")

SpecExtract == Init /\ [][NextExtract]_vars

\* ==================================================================== claims
Begun(r, t) == tries[r][t] > 0
Succeeded(r, t) == ti[r][t] = "success"
\* a stage that was not run because a stage upstream of it failed
Skipped(r, t) == ti[r][t] = "upstream_failed" /\ tries[r][t] = 0
Sinks == {"load_to_postgres", "load_to_csv"}

RECURSIVE Ancestors(_)
Ancestors(t) == Upstream(t) \cup UNION {Ancestors(u) : u \in Upstream(t)}
Downstream(t) == {d \in Tasks : t \in Ancestors(d)}

\* C1: in every run Transform has begun only if Extract has succeeded, a
\* sink writer has begun only if Transform has succeeded, Versioning Step A
\* has begun only if both sink writers have succeeded, and Step B has begun
\* only if Step A has succeeded.
C1_StageOrdering ==
    \A r \in Runs :
        /\ Begun(r, "transform_data") => Succeeded(r, "extract_data")
        /\ \A s \in Sinks : Begun(r, s) => Succeeded(r, "transform_data")
        /\ Begun(r, "version_data_with_dvc") => \A s \in Sinks : Succeeded(r, s)
        /\ Begun(r, "commit_to_git") => Succeeded(r, "version_data_with_dvc")

\* a run in which Step B was retried after a sink writer had been retried
C1_Witness ==
    \E r \in Runs : /\ tries[r]["commit_to_git"] > 1
                     /\ \E s \in Sinks : tries[r][s] > 1

\* C2: at most one run is running, and no two runs have a stage executing
\* at the same time; a run triggered while another is active stays queued.
C2_RunExclusivity ==
    /\ Cardinality(ActiveRuns) <= 1
    /\ \A r1, r2 \in Runs :
          (r1 # r2 /\ \E t \in Tasks : ti[r1][t] = "running")
              => /\ \A t \in Tasks : ti[r2][t] # "running"
                 /\ runState[r2] # "running"

\* a second run was triggered, and waits, while a sink writer of the first executes
C2_Witness ==
    \E r1, r2 \in Runs :
        /\ runState[r1] = "running" /\ runState[r2] = "queued"
        /\ \E s \in Sinks : ti[r1][s] = "running"

\* C3: once a stage has permanently failed, no stage downstream of it has
\* begun or ever begins, the run is never succeeded, and when the run is over
\* it is failed with every downstream stage marked as not run.
C3_FailurePropagates ==
    \A r \in Runs, t \in Tasks :
        ti[r][t] = "failed" =>
            /\ \A d \in Downstream(t) :
                  ~Begun(r, d) /\ ti[r][d] \in {"none", "upstream_failed"}
            /\ runState[r] # "success"
            /\ Over(r) => /\ runState[r] = "failed"
                          /\ \A d \in Downstream(t) : Skipped(r, d)

\* the keyed-upsert writer exhausted its retries, the snapshot writer
\* succeeded, both versioning stages were skipped and the run is failed
C3_Witness ==
    \E r \in Runs :
        /\ ti[r]["load_to_postgres"] = "failed"
        /\ ti[r]["load_to_csv"] = "success"
        /\ Skipped(r, "version_data_with_dvc") /\ Skipped(r, "commit_to_git")
        /\ runState[r] = "failed"

\* C4: when Transform has succeeded neither sink writer is ever marked as
\* not run, a writer is failed only after all of its own 1 + retries
\* executions, and a run that is over has executed both writers to a
\* succeeded or failed outcome, whatever the other writer did.
C4_SinksIsolated ==
    \A r \in Runs :
        Succeeded(r, "transform_data") =>
            \A s \in Sinks :
                /\ ti[r][s] # "upstream_failed"
                /\ ti[r][s] = "failed" => tries[r][s] = retries + 1
                /\ Over(r) => Begun(r, s) /\ ti[r][s] \in {"success", "failed"}

\* the snapshot writer exhausted its retries and the keyed-upsert writer,
\* started after that, still ran and succeeded
C4_Witness ==
    \E r \in Runs :
        /\ ti[r]["load_to_csv"] = "failed"
        /\ ti[r]["load_to_postgres"] = "success"
        /\ Over(r)

\* C5: a Transform execution that fails validation (AssertionError) is the
\* only execution of Transform in its run and leaves the stage failed.
C5_ValidationNeverRetried ==
    \A r \in Runs :
        err[r]["transform_data"] = "AssertionError" =>
            /\ tries[r]["transform_data"] = 1
            /\ ti[r]["transform_data"] = "failed"

\* C6: a versioning stage is succeeded only if its operation took effect:
\* after Step A the metadata describes the current artifact, after Step B
\* the head of the log is the current metadata (committed now, or nothing
\* new to record); and a failed versioning stage fails the run.
C6_VersioningFailureIsFatal ==
    \A r \in Runs :
        /\ Succeeded(r, "version_data_with_dvc") => dvcMeta = <<csv>>
        /\ Succeeded(r, "commit_to_git") => GitHead(gitLog) = dvcMeta
        /\ (Over(r) /\ \E t \in {"version_data_with_dvc", "commit_to_git"} :
                          ti[r][t] = "failed") => runState[r] = "failed"

\* C7: an execution of Step A that finds the metadata already describing the
\* artifact leaves the metadata as it is, and an execution of Step B that
\* finds the metadata already at the head of the log appends nothing; each
\* succeeds unless an outside failure hits that execution.
StepEnds(r, t) == ti[r][t] = "running" /\ ti'[r][t] # "running"

C7_VersioningIdempotent ==
    [][\A r \in Runs :
          /\ (StepEnds(r, "version_data_with_dvc") /\ dvcMeta = <<csv>>)
                => /\ dvcMeta' = dvcMeta
                   /\ faults' = faults => ti'[r]["version_data_with_dvc"] = "success"
          /\ (StepEnds(r, "commit_to_git") /\ GitHead(gitLog) = dvcMeta)
                => /\ gitLog' = gitLog
                   /\ faults' = faults => ti'[r]["commit_to_git"] = "success"
      ]_vars

\* Step B is executed a second time with the metadata already at the head
\* of the log (the first execution committed it and was then killed), in a
\* run whose Step A was executed twice as well
C7_Witness ==
    \E r \in Runs :
        /\ tries[r]["version_data_with_dvc"] = 2
        /\ tries[r]["commit_to_git"] = 2 /\ ti[r]["commit_to_git"] = "running"
        /\ Len(gitLog) = 1 /\ GitHead(gitLog) = dvcMeta /\ dvcMeta = <<csv>>

\* C8: in a run Extract is executed once and sends at most max_retries
\* requests, and every other stage is executed at most 1 + retries times.
C8_RetryPolicy ==
    \A r \in Runs :
        /\ tries[r]["extract_data"] <= 1
        /\ requests[r] <= max_retries
        /\ \A t \in Tasks \ {"extract_data"} : tries[r][t] <= retries + 1

\* C9: after a response whose body did not parse, no further request is
\* sent in that run.
C9_ParseFailureNotRetried ==
    [][\A r \in Runs :
          err[r]["extract_data"] = "JSONDecodeError" => requests'[r] <= requests[r]
      ]_vars

\* C10: a readable snapshot has at most one row per date and is sorted by
\* date descending; after a successful write it holds the written record as
\* the row of its date; and a successful write leaves the row count
\* unchanged when the date was present and adds exactly one row otherwise.
UniqueDates(rows) ==
    \A i, j \in 1..Len(rows) : i # j => rows[i].date # rows[j].date
SortedDescending(rows) ==
    \A i \in 1..(Len(rows) - 1) : rows[i].date >= rows[i + 1].date
HasDate(file, d) == \E i \in 1..Len(file.rows) : file.rows[i].date = d
RowsOfDate(file, d) == {i \in 1..Len(file.rows) : file.rows[i].date = d}

C10_SnapshotShape ==
    csv.kind = "table" =>
        /\ UniqueDates(csv.rows)
        /\ SortedDescending(csv.rows)
        /\ \A r \in Runs :
              Succeeded(r, "load_to_csv") =>
                  LET data == xcomTransform[r][1]
                  IN  /\ RowsOfDate(csv, data.date) # {}
                      /\ \A i \in RowsOfDate(csv, data.date) : csv.rows[i] = ToCsvRow(data)

C10_RowCount ==
    \A r \in Runs :
        (tries'[r]["load_to_csv"] = tries[r]["load_to_csv"] + 1
            /\ ti'[r]["load_to_csv"] = "success")
        => Len(csv'.rows) = Len(csv.rows) +
              (IF HasDate(csv, xcomTransform'[r][1].date) THEN 0 ELSE 1)

C10_SnapshotWriter == []C10_SnapshotShape /\ [][C10_RowCount]_vars

\* three writes, none of them failed, left two rows: one of them replaced
\* the row of a date already in the snapshot
C10_Witness ==
    /\ tries[1]["load_to_csv"] >= 3 /\ faults = 0
    /\ ti[1]["load_to_csv"] = "success"
    /\ csv.kind = "table" /\ Len(csv.rows) = 2

\* C11: the keyed store holds at most one row per date and never loses a
\* date; after a successful upsert the row of the written date is the written
\* record, and a successful upsert changes no row of another date.
C11_OneRowPerDate ==
    /\ \A x, y \in db : x.date = y.date => x = y
    /\ \A r \in Runs :
          Succeeded(r, "load_to_postgres") => xcomTransform[r][1] \in db

C11_UpsertFrame ==
    /\ \A x \in db : \E y \in db' : y.date = x.date
    /\ \A r \in Runs :
          (tries'[r]["load_to_postgres"] = tries[r]["load_to_postgres"] + 1
              /\ ti'[r]["load_to_postgres"] = "success")
          => LET data == xcomTransform'[r][1]
             IN  /\ {x \in db' : x.date = data.date} = {data}
                 /\ {x \in db' : x.date # data.date} = {x \in db : x.date # data.date}

C11_LastWriteWins == []C11_OneRowPerDate /\ [][C11_UpsertFrame]_vars

\* three upserts, none of them failed, left two rows: one of them replaced
\* the row of a date already in the store
C11_Witness ==
    /\ tries[1]["load_to_postgres"] >= 3 /\ faults = 0
    /\ ti[1]["load_to_postgres"] = "success"
    /\ Cardinality(db) = 2

\* C12: an execution of the keyed-upsert writer whose upsert was committed
\* (the store changed) ends succeeded.
C12_VerificationNonFatal ==
    [][\A r \in Runs :
          (StepEnds(r, "load_to_postgres") /\ db' # db)
              => ti'[r]["load_to_postgres"] = "success"
      ]_vars

\* C13: the snapshot artifact only ever changes from the complete old
\* snapshot to the complete new snapshot of an executing snapshot writer.
C13_AtomicReplace ==
    [][csv' # csv =>
          \E r \in Runs :
              /\ ti[r]["load_to_csv"] = "running"
              /\ csv' = WrittenFile(csv, xcomTransform[r][1])
      ]_vars

\* C14: a record Transform returns has a non-null date, a title that is
\* neither null nor empty, and a media kind that is image or video.
C14_ValidationRejects ==
    \A r \in Runs :
        Succeeded(r, "transform_data") =>
            LET rec == xcomTransform[r][1]
            IN  /\ rec.date # NullDate
                /\ rec.title \notin {Null, ""}
                /\ rec.media_type \in {"image", "video"}

\* C15: a stage whose execution was interrupted by the timeout is failed,
\* is not executed again in that run, and no stage downstream of it has begun.
C15_TimeoutIsFinal ==
    \A r \in Runs, t \in Tasks :
        err[r][t] = "AirflowTaskTimeout" =>
            /\ ti[r][t] = "failed"
            /\ \A d \in Downstream(t) : ~Begun(r, d)

\* C16: every triggered run ends succeeded or failed, succeeded exactly when
\* all six stages succeeded; a stage is executed again only after a failed
\* execution; and an execution in which no collaborator call fails ends
\* succeeded, so a run without such a failure ends succeeded with every
\* stage executed once.  C16_HappyRun is the statement for any fetched
\* record, C16_HappyRunValid for a fetched record that passes the checks.
CollaboratorFails(r, t) ==
    \/ faults' # faults
    \/ t = "load_to_csv" /\ csv.kind = "corrupt"

PassesChecks(r) ==
    /\ xcomExtract[r] # <<>>
    /\ ~IsFalsy(xcomExtract[r][1])
    /\ QualityChecksPass(TransformRecord(xcomExtract[r][1], Now(r)))

C16_Terminates ==
    \A r \in Runs : (runState[r] \in {"queued", "running"}) ~> Over(r)

C16_RunEnd ==
    \A r \in Runs :
        (Over(r) /\ Begun(r, "extract_data"))
            => (runState[r] = "success" <=> \A t \in Tasks : Succeeded(r, t))

C16_OnceUnlessFailed ==
    \A r \in Runs, t \in Tasks :
        (tries'[r][t] > tries[r][t] /\ tries[r][t] > 0)
            => ti[r][t] = "up_for_retry" /\ err[r][t] # "none"

C16_CleanStep ==
    \A r \in Runs, t \in Tasks :
        (StepEnds(r, t) /\ ~CollaboratorFails(r, t))
            => ti'[r][t] = "success"

C16_CleanStepValid ==
    \A r \in Runs, t \in Tasks :
        (StepEnds(r, t) /\ ~CollaboratorFails(r, t)
            /\ (t = "transform_data" => PassesChecks(r)))
            => ti'[r][t] = "success"

C16_HappyRun ==
    /\ C16_Terminates
    /\ []C16_RunEnd
    /\ [][C16_OnceUnlessFailed /\ C16_CleanStep]_vars

C16_HappyRunValid ==
    /\ C16_Terminates
    /\ []C16_RunEnd
    /\ [][C16_OnceUnlessFailed /\ C16_CleanStepValid]_vars

\* the second run of a behaviour without any collaborator failure is
\* succeeded, all six stages succeeded after one execution each
C16_Witness ==
    /\ faults = 0
    /\ runState[2] = "success"
    /\ \A t \in Tasks : Succeeded(2, t) /\ tries[2][t] = 1

\* C17: the request of an execution of Extract asks for the logical date of
\* its run, and the record Extract returns carries that date.
C17_FetchesLogicalDate ==
    \A r \in Runs :
        /\ params[r] # 0 => params[r] = logical_date[r]
        /\ (Succeeded(r, "extract_data") /\ xcomExtract[r][1].date \in Dates)
              => xcomExtract[r][1].date = logical_date[r]

\* C18: every pass of the loop sends one request; a caught failure of pass
\* a < max_retries - 1 is followed by one wait of 2^a and the next pass, the
\* failure of the last pass ends the execution with an exception and no
\* wait; the waits of an execution are 1, then 2; no request follows a
\* success; and a succeeded Extract has returned a record.
C18_Waits ==
    \A r \in Runs :
        /\ attempt[r] \in 0..(max_retries - 1)
        /\ slept[r] = [a \in 1..attempt[r] |-> 2 ^ (a - 1)]
        /\ Succeeded(r, "extract_data") => xcomExtract[r] # <<>>

C18_Pass ==
    \A r \in Runs :
        /\ requests'[r] # requests[r]
              => /\ ti[r]["extract_data"] = "running"
                 /\ requests'[r] = requests[r] + 1
        /\ (StepEnds(r, "extract_data") /\ err'[r]["extract_data"] = "Exception")
              => /\ attempt[r] = max_retries - 1
                 /\ requests'[r] = requests[r] + 1
                 /\ slept'[r] = <<>>
        /\ (ti'[r]["extract_data"] = "running" /\ faults' # faults)
              => /\ attempt[r] < max_retries - 1
                 /\ attempt'[r] = attempt[r] + 1
                 /\ slept'[r] = Append(slept[r], 2 ^ attempt[r])

C18_RetryLoop == []C18_Waits /\ [][C18_Pass]_vars

\* the third pass of an execution is about to send its request after the
\* waits 1 and 2
C18_Witness ==
    /\ ti[1]["extract_data"] = "running"
    /\ attempt[1] = 2 /\ slept[1] = <<1, 2>> /\ requests[1] = 2

\* C19: a call of the snapshot writer that finds an artifact it cannot parse
\* raises and leaves the artifact as it is; so an unparseable artifact stays.
C19_Call ==
    \A r \in Runs :
        (tries'[r]["load_to_csv"] = tries[r]["load_to_csv"] + 1 /\ csv.kind = "corrupt")
            => /\ csv' = csv
               /\ ti'[r]["load_to_csv"] = "failed"
               /\ err'[r]["load_to_csv"] = "Exception"

C19_CorruptIsFatal == [][C19_Call /\ (csv.kind = "corrupt" => csv' = csv)]_vars

\* the artifact is unparseable after a call that failed without any new
\* outside failure: the one outside failure tore the file in an earlier call
C19_Witness ==
    /\ tries[1]["load_to_csv"] = 3 /\ faults = 1
    /\ csv.kind = "corrupt"
    /\ ti[1]["load_to_csv"] = "failed"

\* C20: an execution of a sink writer leaves the sink such that executing
\* the writer again with the run's record gives what a single execution
\* would have given; the record does not change while the writers run; and at
\* the end of a succeeded run the keyed store and the snapshot hold the
\* run's record as the row of its date.
C20_SameAsSingleExecution ==
    \A r \in Runs :
        /\ (StepEnds(r, "load_to_postgres"))
              => Upsert(db', xcomTransform[r][1]) = Upsert(db, xcomTransform[r][1])
        /\ (StepEnds(r, "load_to_csv") /\ csv.kind # "corrupt" /\ csv'.kind # "corrupt")
              => WrittenFile(csv', xcomTransform[r][1]) = WrittenFile(csv, xcomTransform[r][1])
        /\ (\E s \in Sinks : ti[r][s] = "running") => xcomTransform'[r] = xcomTransform[r]

C20_IdenticalRecord ==
    \A r \in Runs :
        (runState[r] = "success" /\ xcomTransform[r] # <<>>)
            => LET data == xcomTransform[r][1]
               IN  /\ {x \in db : x.date = data.date} = {data}
                   /\ csv.kind = "table"
                   /\ RowsOfDate(csv, data.date) # {}
                   /\ \A i \in RowsOfDate(csv, data.date) : csv.rows[i] = data

C20_SinkConsistency == []C20_IdenticalRecord /\ [][C20_SameAsSingleExecution]_vars

====
